---------------------------- MODULE Spec2Model ----------------------------
(***************************************************************************)
(* Model of app.py: a Flask application over one SQLite database           *)
(* (tables user, student, offense) with flask_login sessions.              *)
(*                                                                         *)
(* A client is a browser session: it holds the login cookie and has at     *)
(* most one request in flight.  Requests of different clients interleave   *)
(* at the granularity of SQL statements: a SELECT runs in autocommit, the  *)
(* first INSERT/UPDATE/DELETE of a request opens a transaction and takes   *)
(* SQLite's database-wide write lock, COMMIT publishes and releases it.    *)
(* Only committed rows (users, students, offenses) are visible to other    *)
(* requests.                                                               *)
(*                                                                         *)
(* Student columns age, section and strand, and Offense columns category   *)
(* and subtype, are written exactly like name / description and are read   *)
(* by no query; they are left out of the records.                          *)
(***************************************************************************)
EXTENDS Integers, Sequences, FiniteSets, TLC

\* ------------------------------------------------------------- bounds
\* Largest row id the checked runs let the student / offense table reach.
MaxStudentId == 2
MaxOffenseId == 1

\* ------------------------------------------------------------- state
VARIABLES
    users,      \* committed rows of table user
    students,   \* committed rows of table student
    offenses,   \* committed rows of table offense
    session,    \* client -> id of the logged-in user (0: anonymous)
    pc,         \* client -> position of its request in flight ("idle": none)
    req,        \* client -> locals of its request in flight
    resp,       \* client -> the response to its last finished request
    writer,     \* client holding SQLite's write lock (0: nobody)
    registered  \* history: <<email, password>> of every successful register

vars == <<users, students, offenses, session, pc, req, resp, writer, registered>>

Clients == {1, 2}

NoReq == [op |-> "none"]
NoResp == [status |-> "none", data |-> <<>>]

\* A response: its status and what it carries.  A 404 names the handler
\* that raised it (delete_offense: with the id asked for), a login response
\* the credentials it was given.
Reply(status, data) == [status |-> status, data |-> data]

\* ------------------------------------------------------------- helpers
SetMax(S) == CHOOSE x \in S : \A y \in S : y <= x

Ids(table) == {r.id : r \in table}

\* SQLite's rowid for an INTEGER PRIMARY KEY without AUTOINCREMENT:
\* one more than the largest rowid in the table, 1 for an empty table.
NewId(table) == IF table = {} THEN 1 ELSE SetMax(Ids(table)) + 1

\* Model.query.get(id): the row with that primary key, if any.
Get(table, id) == {r \in table : r.id = id}

Row(table, id) == CHOOSE r \in table : r.id = id

\* Query.first() of an unordered query: SQLite scans in rowid order.
First(rows) == CHOOSE r \in rows : \A q \in rows : r.id <= q.id

\* ------------------------------------------------------------- passwords
\* werkzeug's salted hash: the stored string is method$salt$digest.  The
\* digest stands for PBKDF2/scrypt of (salt, password); it is collision
\* free on the modelled passwords for each salt, and is not the identity.
Digest(salt, password) == (5 * password + 3 * salt) % 7

generate_password_hash(password, salt) == <<salt, Digest(salt, password)>>

\* (mutation: only checks that the stored string is a well-formed hash)
check_password_hash_any(pwhash, password) == pwhash[2] \in 0..6

check_password_hash(pwhash, password) == Digest(pwhash[1], password) = pwhash[2]

\* ------------------------------------------------------------- sessions
\* (mutation: a view function without @login_required)
AuthenticatedAnyone(c) == c \in DOMAIN session

\* flask_login: current_user is the user row the cookie's id loads
\* (load_user); without one the client is anonymous.
Authenticated(c) == session[c] # 0 /\ Get(users, session[c]) # {}

Done(c, status, data) ==
    /\ pc' = [pc EXCEPT ![c] = "idle"]
    /\ req' = [req EXCEPT ![c] = NoReq]
    /\ resp' = [resp EXCEPT ![c] = Reply(status, data)]

\* @login_required on an anonymous client: redirect to the login view.
Unauthorized(c) ==
    /\ Done(c, "login_required", <<>>)
    /\ UNCHANGED <<users, students, offenses, session, writer, registered>>

\* Another request holds the write lock: this one waits (takes no step) or
\* gives up after sqlite3's busy timeout with "database is locked".
Locked(c) == writer \notin {0, c}

Init ==
    /\ users = {}
    /\ students = {}
    /\ offenses = {}
    /\ session = [c \in Clients |-> 0]
    /\ pc = [c \in Clients |-> "idle"]
    /\ req = [c \in Clients |-> NoReq]
    /\ resp = [c \in Clients |-> NoResp]
    /\ writer = 0
    /\ registered = {}

\* ------------------------------------------------------------- accounts
\* register(), lines 118-122 and 129: validation and the existence check.
Register(c, submitted, email, password) ==
    /\ pc[c] = "idle"
    /\ IF ~submitted
       THEN /\ Done(c, "form", <<>>)
       ELSE IF \E u \in users : u.email = email
       THEN /\ Done(c, "duplicate", <<>>)
       ELSE /\ pc' = [pc EXCEPT ![c] = "register_insert"]
            /\ req' = [req EXCEPT ![c] =
                   [op |-> "register", email |-> email, password |-> password]]
            /\ resp' = [resp EXCEPT ![c] = NoResp]
    /\ UNCHANGED <<users, students, offenses, session, writer, registered>>

\* (mutation: the column declared without unique=True)
UniqueEmailUnchecked(email) == email \in {u.email : u \in users} \cup {email}

\* The UNIQUE constraint of user.email, checked by the store on INSERT.
UniqueEmailHolds(email) == \A u \in users : u.email # email

\* register(), lines 123-128: INSERT and COMMIT.
RegisterInsert(c, salt) ==
    /\ pc[c] = "register_insert"
    /\ IF Locked(c)
       THEN /\ Done(c, "database_locked", <<>>)
            /\ UNCHANGED <<users, registered>>
       ELSE IF UniqueEmailHolds(req[c].email)
       THEN /\ users' = users \cup
                   {[id |-> NewId(users), email |-> req[c].email,
                     password_hash |->
                         generate_password_hash(req[c].password, salt)]}
            /\ registered' = registered \cup {<<req[c].email, req[c].password>>}
            /\ Done(c, "registered", <<>>)
       ELSE /\ Done(c, "integrity_error", <<>>)
            /\ UNCHANGED <<users, registered>>
    /\ UNCHANGED <<students, offenses, session, writer>>

\* login(), lines 132-140.
Login(c, submitted, email, password) ==
    /\ pc[c] = "idle"
    /\ LET found == {u \in users : u.email = email}
           user == First(found)
       IN IF ~submitted
          THEN /\ Done(c, "form", <<>>)
               /\ UNCHANGED session
          ELSE IF found # {} /\ check_password_hash(user.password_hash, password)
          THEN /\ session' = [session EXCEPT ![c] = user.id]
               /\ Done(c, "logged_in", <<email, password>>)
          ELSE /\ Done(c, "invalid_credentials", <<email, password>>)
               /\ UNCHANGED session
    /\ UNCHANGED <<users, students, offenses, writer, registered>>

\* logout(), lines 142-146.
Logout(c) ==
    /\ pc[c] = "idle"
    /\ IF ~Authenticated(c)
       THEN Unauthorized(c)
       ELSE /\ session' = [session EXCEPT ![c] = 0]
            /\ Done(c, "logged_out", <<>>)
            /\ UNCHANGED <<users, students, offenses, writer, registered>>

\* ------------------------------------------------------------- students
\* students(), lines 153-157.
Students(c) ==
    /\ pc[c] = "idle"
    /\ IF ~Authenticated(c)
       THEN Unauthorized(c)
       ELSE /\ Done(c, "students", students)
            /\ UNCHANGED <<users, students, offenses, session, writer, registered>>

\* add_student(), lines 159-176: no SELECT before the INSERT and COMMIT.
AddStudent(c, submitted, form) ==
    /\ pc[c] = "idle"
    /\ IF ~Authenticated(c)
       THEN Unauthorized(c)
       ELSE /\ IF ~submitted
               THEN /\ Done(c, "form", <<>>)
                    /\ UNCHANGED students
               ELSE IF Locked(c)
               THEN /\ Done(c, "database_locked", <<>>)
                    /\ UNCHANGED students
               ELSE /\ students' = students \cup
                           {[id |-> NewId(students), name |-> form.name,
                             gender |-> form.gender,
                             grade_level |-> form.grade_level]}
                    /\ Done(c, "student_added", <<>>)
            /\ UNCHANGED <<users, offenses, session, writer, registered>>

\* Lines 184-189: the columns whose assignment changes the loaded object;
\* the unit of work writes these and no others.
Dirty(loaded, form) ==
    {f \in {"name", "gender", "grade_level"} : form[f] # loaded[f]}

\* edit_student(), lines 180-189 and 193: get_or_404, the form, and the
\* assignments to the loaded object.
EditStudent(c, id, submitted, form) ==
    /\ pc[c] = "idle"
    /\ IF ~Authenticated(c)
       THEN Unauthorized(c)
       ELSE /\ IF Get(students, id) = {}
               THEN Done(c, "404", <<"edit_student">>)
               ELSE IF ~submitted
               THEN Done(c, "form", Row(students, id))
               ELSE /\ pc' = [pc EXCEPT ![c] = "edit_student_commit"]
                    /\ req' = [req EXCEPT ![c] =
                           [op |-> "edit_student", id |-> id,
                            set |-> [f \in Dirty(Row(students, id), form) |->
                                        form[f]]]]
                    /\ resp' = [resp EXCEPT ![c] = NoResp]
            /\ UNCHANGED <<users, students, offenses, session, writer, registered>>

\* (mutation: the UPDATE misses its WHERE clause)
UpdateAllStudents(id, cols, form) ==
    {[f \in DOMAIN s |-> IF f \in cols THEN form[f] ELSE s[f]] : s \in students}

\* UPDATE student SET <dirty columns> WHERE id = ?
UpdateStudent(id, cols, form) ==
    {IF s.id = id
     THEN [f \in DOMAIN s |-> IF f \in cols THEN form[f] ELSE s[f]]
     ELSE s : s \in students}

\* edit_student(), lines 190-192: the flush (UPDATE) and COMMIT.
EditStudentCommit(c) ==
    /\ pc[c] = "edit_student_commit"
    /\ LET cols == DOMAIN req[c].set
       IN IF cols = {}
          THEN /\ Done(c, "student_updated", <<>>)
               /\ UNCHANGED students
          ELSE IF Locked(c)
          THEN /\ Done(c, "database_locked", <<>>)
               /\ UNCHANGED students
          ELSE IF Get(students, req[c].id) = {}
          THEN /\ Done(c, "stale_data_error", <<>>)
               /\ UNCHANGED students
          ELSE /\ students' = UpdateStudent(req[c].id, cols, req[c].set)
               /\ Done(c, "student_updated", <<>>)
    /\ UNCHANGED <<users, offenses, session, writer, registered>>

\* delete_student(), line 198: get_or_404.
DeleteStudent(c, id) ==
    /\ pc[c] = "idle"
    /\ IF ~Authenticated(c)
       THEN Unauthorized(c)
       ELSE /\ IF Get(students, id) = {}
               THEN Done(c, "404", <<"delete_student">>)
               ELSE /\ pc' = [pc EXCEPT ![c] = "delete_student_offenses"]
                    /\ req' = [req EXCEPT ![c] =
                           [op |-> "delete_student", id |-> id, deleted |-> {}]]
                    /\ resp' = [resp EXCEPT ![c] = NoResp]
            /\ UNCHANGED <<users, students, offenses, session, writer, registered>>

\* (mutation: the bulk DELETE committed on its own, before the student row)
DeleteStudentOffensesAutocommit(c) ==
    /\ pc[c] = "delete_student_offenses"
    /\ IF Locked(c)
       THEN /\ Done(c, "database_locked", <<>>)
            /\ UNCHANGED offenses
       ELSE /\ offenses' = {o \in offenses : o.student_id # req[c].id}
            /\ pc' = [pc EXCEPT ![c] = "delete_student_commit"]
            /\ UNCHANGED <<req, resp>>
    /\ UNCHANGED <<users, students, session, writer, registered>>

\* delete_student(), line 200: the bulk DELETE runs at once, inside the
\* transaction it opens; the rows it removed stay visible to other
\* requests until COMMIT.
DeleteStudentOffenses(c) ==
    /\ pc[c] = "delete_student_offenses"
    /\ IF Locked(c)
       THEN /\ Done(c, "database_locked", <<>>)
            /\ UNCHANGED writer
       ELSE /\ writer' = c
            /\ pc' = [pc EXCEPT ![c] = "delete_student_commit"]
            /\ req' = [req EXCEPT ![c].deleted =
                   {o.id : o \in {x \in offenses : x.student_id = req[c].id}}]
            /\ UNCHANGED resp
    /\ UNCHANGED <<users, students, offenses, session, registered>>

\* delete_student(), lines 201-204: DELETE of the student row and COMMIT.
DeleteStudentCommit(c) ==
    /\ pc[c] = "delete_student_commit"
    /\ offenses' = {o \in offenses : o.id \notin req[c].deleted}
    /\ students' = {s \in students : s.id # req[c].id}
    /\ writer' = IF writer = c THEN 0 ELSE writer
    /\ Done(c, "student_deleted", <<>>)
    /\ UNCHANGED <<users, session, registered>>

\* ------------------------------------------------------------- offenses
\* offenses(), lines 206-211.
Offenses(c, id) ==
    /\ pc[c] = "idle"
    /\ IF ~Authenticated(c)
       THEN Unauthorized(c)
       ELSE /\ IF Get(students, id) = {}
               THEN Done(c, "404", <<"offenses">>)
               ELSE Done(c, "offenses",
                         {o \in offenses : o.student_id = id})
            /\ UNCHANGED <<users, students, offenses, session, writer, registered>>

\* add_offense(), lines 215-218 and 231: get_or_404, then the form.
AddOffense(c, id, submitted, form) ==
    /\ pc[c] = "idle"
    /\ IF ~Authenticated(c)
       THEN Unauthorized(c)
       ELSE /\ IF Get(students, id) = {}
               THEN Done(c, "404", <<"add_offense">>)
               ELSE IF ~submitted
               THEN Done(c, "form", <<>>)
               ELSE /\ pc' = [pc EXCEPT ![c] = "add_offense_commit"]
                    /\ req' = [req EXCEPT ![c] =
                           [op |-> "add_offense",
                            student_id |-> Row(students, id).id,
                            form |-> form]]
                    /\ resp' = [resp EXCEPT ![c] = NoResp]
            /\ UNCHANGED <<users, students, offenses, session, writer, registered>>

\* add_offense(), lines 219-230: INSERT and COMMIT.  SQLite does not
\* enforce the ForeignKey of line 44 (PRAGMA foreign_keys is never set).
AddOffenseCommit(c) ==
    /\ pc[c] = "add_offense_commit"
    /\ IF Locked(c)
       THEN /\ Done(c, "database_locked", <<>>)
            /\ UNCHANGED offenses
       ELSE /\ offenses' = offenses \cup
                   {[id |-> NewId(offenses), student_id |-> req[c].student_id,
                     offense_type |-> req[c].form.offense_type,
                     date |-> req[c].form.date,
                     description |-> req[c].form.description]}
            /\ Done(c, "offense_added", <<>>)
    /\ UNCHANGED <<users, students, session, writer, registered>>

\* (mutation: Offense.query.get(id) in place of get_or_404(id))
OffenseFoundAlways(id) == id \in Ids(offenses) \cup {id}

\* delete_offense(), line 236: get_or_404 finds the row.
OffenseFound(id) == Get(offenses, id) # {}

\* delete_offense(), lines 236-237.
DeleteOffense(c, id) ==
    /\ pc[c] = "idle"
    /\ IF ~Authenticated(c)
       THEN Unauthorized(c)
       ELSE /\ IF ~OffenseFound(id)
               THEN Done(c, "404", <<"delete_offense", id>>)
               ELSE /\ pc' = [pc EXCEPT ![c] = "delete_offense_commit"]
                    /\ req' = [req EXCEPT ![c] =
                           [op |-> "delete_offense", id |-> id]]
                    /\ resp' = [resp EXCEPT ![c] = NoResp]
            /\ UNCHANGED <<users, students, offenses, session, writer, registered>>

\* delete_offense(), lines 238-241: DELETE ... WHERE id = ? and COMMIT.
DeleteOffenseCommit(c) ==
    /\ pc[c] = "delete_offense_commit"
    /\ IF Locked(c)
       THEN /\ Done(c, "database_locked", <<>>)
            /\ UNCHANGED offenses
       ELSE /\ offenses' = {o \in offenses : o.id # req[c].id}
            /\ Done(c, "offense_deleted", <<>>)
    /\ UNCHANGED <<users, students, session, writer, registered>>

\* ------------------------------------------------------------- charts
\* index(), lines 148-151: the home page, no record read.
Index(c) ==
    /\ pc[c] = "idle"
    /\ IF ~Authenticated(c)
       THEN Unauthorized(c)
       ELSE /\ Done(c, "index", <<>>)
            /\ UNCHANGED <<users, students, offenses, session, writer, registered>>

\* graphs(), lines 243-246: the charts page, no record read.
Graphs(c) ==
    /\ pc[c] = "idle"
    /\ IF ~Authenticated(c)
       THEN Unauthorized(c)
       ELSE /\ Done(c, "page", <<>>)
            /\ UNCHANGED <<users, students, offenses, session, writer, registered>>

\* SELECT ... FROM student JOIN offense ON student.id = offense.student_id
JoinRows == {<<s, o>> \in students \X offenses : s.id = o.student_id}

\* The GROUP BY columns of a joined row: grade_level with offense_type
\* (by = "type", line 259) or with gender (by = "gender", line 279).
GroupKey(by, r) ==
    IF by = "type" THEN <<r[1].grade_level, r[2].offense_type>>
                   ELSE <<r[1].grade_level, r[1].gender>>

\* (mutation: COUNT over the distinct students of the group)
GroupCountStudents(by, k) ==
    Cardinality({r[1].id : r \in {q \in JoinRows : GroupKey(by, q) = k}})

\* GROUP BY key, COUNT(offense.id): the size of one group.
GroupCount(by, k) == Cardinality({r \in JoinRows : GroupKey(by, r) = k})

\* The result rows <<grade, second key, count>> of the grouped query.
GroupBy(by) ==
    {<<GroupKey(by, r)[1], GroupKey(by, r)[2], GroupCount(by, GroupKey(by, r))>> :
        r \in JoinRows}

\* (mutation: the dict built without the zero-filled default)
ChartNoDefaults(rows, defaults) ==
    [g \in {r[1] : r \in rows} |->
        [k \in {r[2] : r \in {q \in rows : q[1] = g}} |->
            (CHOOSE r \in rows : r[1] = g /\ r[2] = k)[3]]]

\* Lines 262-266 / 282-286: the nested dict built from the result rows,
\* every grade starting from the zero-filled default.
Chart(rows, defaults) ==
    [g \in {r[1] : r \in rows} |->
        [k \in defaults \cup {r[2] : r \in {q \in rows : q[1] = g}} |->
            IF \E r \in rows : r[1] = g /\ r[2] = k
            THEN (CHOOSE r \in rows : r[1] = g /\ r[2] = k)[3]
            ELSE 0]]

OffenseTypes == {"warning", "minor", "major"}
Genders == {"Male", "Female"}

\* offenses_by_type_grade(), lines 248-268.
OffensesByTypeGrade(c) ==
    /\ pc[c] = "idle"
    /\ IF ~Authenticated(c)
       THEN Unauthorized(c)
       ELSE /\ Done(c, "by_type_grade", Chart(GroupBy("type"), OffenseTypes))
            /\ UNCHANGED <<users, students, offenses, session, writer, registered>>

\* offenses_by_gender_grade(), lines 270-287.
OffensesByGenderGrade(c) ==
    /\ pc[c] = "idle"
    /\ IF ~Authenticated(c)
       THEN Unauthorized(c)
       ELSE /\ Done(c, "by_gender_grade", Chart(GroupBy("gender"), Genders))
            /\ UNCHANGED <<users, students, offenses, session, writer, registered>>

\* ------------------------------------------------------------- calendar
\* datetime.MINYEAR and datetime.MAXYEAR: datetime(year, month, 1) raises
\* ValueError outside them.
MINYEAR == 1
MAXYEAR == 9999

IsLeap(y) == y % 4 = 0 /\ (y % 100 # 0 \/ y % 400 = 0)

\* calendar.monthrange(year, month)[1]
DaysInMonth(y, m) ==
    IF m = 2 THEN (IF IsLeap(y) THEN 29 ELSE 28)
    ELSE IF m \in {4, 6, 9, 11} THEN 30 ELSE 31

\* Order of dates <<year, month, day>>.
DateLE(a, b) ==
    \/ a[1] < b[1]
    \/ a[1] = b[1] /\ a[2] < b[2]
    \/ a[1] = b[1] /\ a[2] = b[2] /\ a[3] <= b[3]

\* Every order an ORDER BY may return the rows in: sorted by the key, rows
\* of equal key in any order.  before(a, b): a may precede b.
RECURSIVE OrderedAsc(_)
OrderedAsc(rows) ==
    IF rows = {} THEN {<<>>}
    ELSE UNION {{<<r>> \o rest : rest \in OrderedAsc(rows \ {r})} :
                r \in {x \in rows : \A y \in rows : DateLE(x.date, y.date)}}

RECURSIVE OrderedDesc(_)
OrderedDesc(rows) ==
    IF rows = {} THEN {<<>>}
    ELSE UNION {{<<r>> \o rest : rest \in OrderedDesc(rows \ {r})} :
                r \in {x \in rows : \A y \in rows : DateLE(y.date, x.date)}}

\* The letters of the stored strings, for capitalize() and ILIKE.
UpperCase == <<"A", "B", "C", "D", "E", "F", "G", "H", "I", "J", "K", "L", "M",
               "N", "O", "P", "Q", "R", "S", "T", "U", "V", "W", "X", "Y", "Z">>
LowerCase == <<"a", "b", "c", "d", "e", "f", "g", "h", "i", "j", "k", "l", "m",
               "n", "o", "p", "q", "r", "s", "t", "u", "v", "w", "x", "y", "z">>

Lower(ch) ==
    IF \E i \in 1..26 : UpperCase[i] = ch
    THEN LowerCase[CHOOSE i \in 1..26 : UpperCase[i] = ch] ELSE ch

Upper(ch) ==
    IF \E i \in 1..26 : LowerCase[i] = ch
    THEN UpperCase[CHOOSE i \in 1..26 : LowerCase[i] = ch] ELSE ch

Chars(type) ==
    CASE type = "warning" -> <<"w", "a", "r", "n", "i", "n", "g">>
      [] type = "minor" -> <<"m", "i", "n", "o", "r">>
      [] type = "major" -> <<"m", "a", "j", "o", "r">>

\* str.capitalize()
Capitalize(str) ==
    [i \in 1..Len(str) |-> IF i = 1 THEN Upper(str[i]) ELSE Lower(str[i])]

NoDescription == <<"N", "o", " ", "d", "e", "s", "c", "r", "i", "p", "t", "i", "o", "n">>

\* date.strftime('%Y-%m-%d') for a four-digit year
Strftime(d) ==
    <<d[1] \div 1000, (d[1] \div 100) % 10, (d[1] \div 10) % 10, d[1] % 10, "-",
      d[2] \div 10, d[2] % 10, "-", d[3] \div 10, d[3] % 10>>

\* Line 313: the detail string of one offense.
Detail(o) ==
    <<Capitalize(Chars(o.offense_type)),
      IF o.description = <<>> THEN NoDescription ELSE o.description,
      Strftime(o.date)>>

\* Lines 309-314: day -> details, in the order of the query.
OffenseDates(seq) ==
    [day \in {seq[i].date[3] : i \in 1..Len(seq)} |->
        SelectSeq([i \in 1..Len(seq) |-> seq[i]], LAMBDA o : o.date[3] = day)]

\* calendar_view(), lines 289-336.  year and month are the query arguments
\* (<<>>: absent or not an integer), now is datetime.now().
CalendarView(c, id, yearArg, monthArg, now) ==
    /\ pc[c] = "idle"
    /\ IF ~Authenticated(c)
       THEN Unauthorized(c)
       ELSE /\ LET year == IF yearArg = <<>> THEN now[1] ELSE yearArg[1]
                   month0 == IF monthArg = <<>> THEN now[2] ELSE monthArg[1]
                   month == IF month0 < 1 \/ month0 > 12 THEN now[2] ELSE month0
                   start_date == <<year, month, 1>>
                   end_date == <<year, month, DaysInMonth(year, month)>>
                   rows == {o \in offenses :
                               /\ o.student_id = id
                               /\ DateLE(start_date, o.date)
                               /\ DateLE(o.date, end_date)}
               IN IF Get(students, id) = {}
                  THEN Done(c, "404", <<"calendar_view">>)
                  ELSE IF year < MINYEAR \/ year > MAXYEAR
                  THEN Done(c, "value_error",
                            [id |-> id, year |-> year, month |-> month0, now |-> now])
                  ELSE \E seq \in OrderedAsc(rows) :
                          Done(c, "calendar",
                               [id |-> id, year |-> year, month |-> month0,
                                now |-> now, shown |-> month, offenses |-> seq,
                                offense_dates |->
                                    [d \in DOMAIN OffenseDates(seq) |->
                                        [i \in 1..Len(OffenseDates(seq)[d]) |->
                                            Detail(OffenseDates(seq)[d][i])]],
                                prev |-> IF month > 1 THEN <<year, month - 1>>
                                         ELSE <<year - 1, 12>>,
                                next |-> IF month < 12 THEN <<year, month + 1>>
                                         ELSE <<year + 1, 1>>])
            /\ UNCHANGED <<users, students, offenses, session, writer, registered>>

\* ------------------------------------------------------------- search
\* per_page, line 343.
PerPage == 20

Whitespace == {" "}

\* str.strip()
RECURSIVE Strip(_)
Strip(str) ==
    IF str = <<>> THEN str
    ELSE IF Head(str) \in Whitespace THEN Strip(Tail(str))
    ELSE IF str[Len(str)] \in Whitespace THEN Strip(SubSeq(str, 1, Len(str) - 1))
    ELSE str

\* SQL's  lower(text) LIKE lower(pattern), which is what ilike() renders
\* on SQLite: % matches any run of characters, _ any one character, and
\* lower() folds the ASCII letters only.
RECURSIVE Like(_, _)
Like(pattern, text) ==
    IF pattern = <<>> THEN text = <<>>
    ELSE IF Head(pattern) = "%"
    THEN Like(Tail(pattern), text) \/ (text # <<>> /\ Like(pattern, Tail(text)))
    ELSE /\ text # <<>>
         /\ Head(pattern) = "_" \/ Lower(Head(pattern)) = Lower(Head(text))
         /\ Like(Tail(pattern), Tail(text))

\* Lines 345-355: Offense JOIN Student, filtered when the term is not empty.
SearchRows(search) ==
    {o \in offenses :
        \E s \in students :
            /\ s.id = o.student_id
            /\ \/ search = <<>>
               \/ Like(<<"%">> \o search \o <<"%">>, s.name)
               \/ Like(<<"%">> \o search \o <<"%">>, o.description)
               \/ Like(<<"%">> \o search \o <<"%">>, Chars(o.offense_type))}

\* Query.paginate(page, per_page, error_out=False): a page below 1 is
\* served as page 1; the items are LIMIT per_page OFFSET (page-1)*per_page.
Paginate(seq, pageArg, per_page) ==
    LET page == IF pageArg < 1 THEN 1 ELSE pageArg
        from == (page - 1) * per_page + 1
        to == IF page * per_page < Len(seq) THEN page * per_page ELSE Len(seq)
    IN [page |-> page, total |-> Len(seq), items |-> SubSeq(seq, from, to)]

\* all_offenses(), lines 338-365.  searchArg and pageArg are the query
\* arguments (<<>>: absent; a page that is not an integer counts as absent).
AllOffenses(c, searchArg, pageArg) ==
    /\ pc[c] = "idle"
    /\ IF ~Authenticated(c)
       THEN Unauthorized(c)
       ELSE /\ LET search == Strip(searchArg)
                   page == IF pageArg = <<>> THEN 1 ELSE pageArg[1]
               IN \E seq \in OrderedDesc(SearchRows(search)) :
                     Done(c, "all_offenses",
                          [search |-> search, requested |-> page,
                           pagination |-> Paginate(seq, page, PerPage)])
            /\ UNCHANGED <<users, students, offenses, session, writer, registered>>

\* ------------------------------------------------------------- inputs
Emails == {"a@x", "b@x"}
Passwords == {1, 2}
Salts == {1, 2}

Lee == <<"L", "e", "e">>
Ann == <<"A", "n", "n">>
Late == <<"l", "a", "t", "e">>

Grades == {"11", "12"}

\* The forms the concurrent runs submit.
StudentForms == [name : {Lee}, gender : {"Male"}, grade_level : Grades]
OffenseForms ==
    [offense_type : {"warning"}, date : {<<2024, 2, 29>>}, description : {<<>>}]

\* ------------------------------------------------------------- Spec
\* Two clients, every account and mutation handler, requests interleaved.
Next ==
    \E c \in Clients :
        \/ Register(c, TRUE, "a@x", 1)
        \/ RegisterInsert(c, 1)
        \/ Login(c, TRUE, "a@x", 1)
        \/ Logout(c)
        \/ \E f \in StudentForms :
               /\ NewId(students) <= MaxStudentId
               /\ AddStudent(c, TRUE, f)
        \/ \E id \in 1..MaxStudentId, f \in StudentForms :
               EditStudent(c, id, TRUE, f)
        \/ EditStudentCommit(c)
        \/ \E id \in 1..MaxStudentId : DeleteStudent(c, id)
        \/ DeleteStudentOffenses(c)
        \/ DeleteStudentCommit(c)
        \/ \E id \in 1..MaxStudentId, f \in OffenseForms :
               AddOffense(c, id, TRUE, f)
        \/ /\ NewId(offenses) <= MaxOffenseId
           /\ AddOffenseCommit(c)
        \/ \E id \in 1..MaxOffenseId : DeleteOffense(c, id)
        \/ DeleteOffenseCommit(c)

Spec == Init /\ [][Next]_vars

\* ------------------------------------------------------------- SpecAuth
\* Two clients, the account handlers alone, over every email, password
\* and salt.
NextAuth ==
    \E c \in Clients :
        \/ \E sub \in BOOLEAN, e \in Emails, p \in Passwords : Register(c, sub, e, p)
        \/ \E k \in Salts : RegisterInsert(c, k)
        \/ \E sub \in BOOLEAN, e \in Emails, p \in Passwords : Login(c, sub, e, p)
        \/ Logout(c)

SpecAuth == Init /\ [][NextAuth]_vars

\* ------------------------------------------------------------- SpecSession
\* One client issuing every request of the application, one at a time.
SessionMaxId == 1

Years == {<<>>, <<0>>, <<2023>>, <<2024>>, <<10000>>}
Months == {<<>>, <<0>>, <<2>>, <<13>>}
Nows == {<<2024, 2, 10>>, <<2024, 3, 5>>}
Terms == {<<>>, <<"l", "E">>, <<"_">>, <<" ", "m", "a", "j", " ">>, <<"z">>}
Pages == {<<>>, <<0>>, <<1>>, <<2>>}

NextSession ==
    \E c \in {1} :
        \/ \E sub \in BOOLEAN : Register(c, sub, "a@x", 1)
        \/ RegisterInsert(c, 1)
        \/ \E sub \in BOOLEAN, p \in Passwords : Login(c, sub, "a@x", p)
        \/ Logout(c)
        \/ Index(c)
        \/ Graphs(c)
        \/ Students(c)
        \/ \E sub \in BOOLEAN, f \in StudentForms :
               /\ NewId(students) <= SessionMaxId
               /\ AddStudent(c, sub, f)
        \/ \E id \in 1..SessionMaxId + 1, sub \in BOOLEAN, f \in StudentForms :
               EditStudent(c, id, sub, f)
        \/ EditStudentCommit(c)
        \/ \E id \in 1..SessionMaxId + 1 : DeleteStudent(c, id)
        \/ DeleteStudentOffenses(c)
        \/ DeleteStudentCommit(c)
        \/ \E id \in 1..SessionMaxId + 1 : Offenses(c, id)
        \/ \E id \in 1..SessionMaxId + 1, sub \in BOOLEAN, f \in OffenseForms :
               AddOffense(c, id, sub, f)
        \/ /\ NewId(offenses) <= SessionMaxId
           /\ AddOffenseCommit(c)
        \/ \E id \in 1..SessionMaxId + 1 : DeleteOffense(c, id)
        \/ DeleteOffenseCommit(c)
        \/ OffensesByTypeGrade(c)
        \/ OffensesByGenderGrade(c)
        \/ \E id \in 1..SessionMaxId + 1 :
               CalendarView(c, id, <<2024>>, <<2>>, <<2024, 2, 10>>)
        \/ \E t \in {<<>>, <<"z">>}, p \in {<<1>>} : AllOffenses(c, t, p)

SpecSession == Init /\ [][NextSession]_vars

\* ------------------------------------------------------------- query specs
\* The query handlers applied to stores drawn from bounded tables: one
\* registered user, client 1 logged in, client 2 anonymous.
MaxRows == 3
CalMaxRows == 2
SearchMaxRows == 2

\* Every offense table with ids 1..n, n <= max, whose rows come from rows.
OffenseTables(max, rows) ==
    UNION {{{[id |-> i, student_id |-> f[i].student_id,
              offense_type |-> f[i].offense_type, date |-> f[i].date,
              description |-> f[i].description] : i \in 1..n} :
            f \in [1..n -> rows]} : n \in 0..max}

InitLoggedIn(studentTables, offenseTables) ==
    /\ users = {[id |-> 1, email |-> "a@x",
                 password_hash |-> generate_password_hash(1, 1)]}
    /\ registered = {<<"a@x", 1>>}
    /\ students \in studentTables
    /\ offenses \in offenseTables
    /\ session = [c \in Clients |-> IF c = 1 THEN 1 ELSE 0]
    /\ pc = [c \in Clients |-> "idle"]
    /\ req = [c \in Clients |-> NoReq]
    /\ resp = [c \in Clients |-> NoResp]
    /\ writer = 0

TwoStudents ==
    {{[id |-> 1, name |-> Lee, gender |-> g, grade_level |-> a],
      [id |-> 2, name |-> Ann, gender |-> "Female", grade_level |-> b]} :
        g \in Genders, a \in Grades, b \in Grades}

InitAgg ==
    InitLoggedIn(TwoStudents,
        OffenseTables(MaxRows,
            [student_id : 1..3, offense_type : OffenseTypes,
             date : {<<2024, 2, 29>>}, description : {<<>>}]))

NextAgg ==
    \E c \in Clients :
        \/ OffensesByTypeGrade(c)
        \/ OffensesByGenderGrade(c)

SpecAgg == InitAgg /\ [][NextAgg]_vars

Dates ==
    {<<2023, 2, 28>>, <<2024, 1, 31>>, <<2024, 2, 1>>, <<2024, 2, 29>>,
     <<2024, 3, 1>>}

InitCal ==
    InitLoggedIn({s \in TwoStudents : \A x \in s : x.grade_level = "11" /\ x.gender = "Female"},
        OffenseTables(CalMaxRows,
            [student_id : 1..2, offense_type : {"warning"},
             date : Dates, description : {<<>>}]))

NextCal ==
    \E c \in Clients :
        \E id \in 1..3, y \in Years, m \in Months, now \in Nows :
            CalendarView(c, id, y, m, now)

SpecCal == InitCal /\ [][NextCal]_vars

InitSearch ==
    InitLoggedIn({s \in TwoStudents : \A x \in s : x.grade_level = "11" /\ x.gender = "Female"},
        OffenseTables(SearchMaxRows,
            [student_id : 1..2, offense_type : {"warning", "major"},
             date : {<<2024, 2, 1>>, <<2024, 2, 29>>},
             description : {<<>>, Late}]))

NextSearch ==
    \E c \in Clients :
        \E t \in Terms, p \in Pages : AllOffenses(c, t, p)

SpecSearch == InitSearch /\ [][NextSearch]_vars

\* ------------------------------------------------------------- claims
\* The step of client c: its request moved on or was answered.
Stepped(c) == pc'[c] # pc[c] \/ req'[c] # req[c] \/ resp'[c] # resp[c]

\* The step answers client c with this status.
Answered(c, status) == resp'[c] # resp[c] /\ resp'[c].status = status


StoreUnchanged == students' = students /\ offenses' = offenses

\* C1: referential integrity.  In every reachable state every Offense's
\* student_id is the id of an existing Student.
C1_ReferentialIntegrity ==
    \A o \in offenses : \E s \in students : s.id = o.student_id

\* C2: deleteStudent is atomic for other requests.  Every step of a
\* delete_student request either leaves the committed students and offenses
\* as they are, or removes the Student together with every Offense that
\* references it; and while its transaction is open the rows it has
\* deleted are still the committed ones.
C2_DeleteStudentAtomic ==
    [][\A c \in Clients :
          /\ (req[c].op = "delete_student" /\ Stepped(c)) =>
                \/ StoreUnchanged
                \/ /\ req[c].id \notin Ids(students')
                   /\ \A o \in offenses : o.student_id = req[c].id => o \notin offenses'
                   /\ \A s \in students : s.id # req[c].id => s \in students'
                   /\ \A o \in offenses : o.student_id # req[c].id => o \in offenses'
          /\ pc'[c] = "delete_student_commit" =>
                req'[c].deleted =
                    {o.id : o \in {x \in offenses' : x.student_id = req'[c].id}}
      ]_vars

\* C2 witness: a delete_student transaction is open on a student that owns
\* offenses, which the other client still reads in full.
C2_Witness ==
    \E c \in Clients :
        /\ pc[c] = "delete_student_commit"
        /\ req[c].deleted # {}
        /\ \E d \in Clients : d # c /\ pc[d] = "idle" /\ Authenticated(d)

\* C8: deleteOffense is terminal per id.  A delete_offense request goes on
\* to its DELETE only for an id that resolves to an Offense; a successful
\* one leaves no Offense with that id and changes nothing else; one answered
\* 404 is for an id that resolves to no Offense and changes nothing.
C8_DeleteOffenseTerminal ==
    [][\A c \in Clients :
          /\ (pc[c] = "idle" /\ pc'[c] = "delete_offense_commit") =>
                req'[c].id \in Ids(offenses) /\ StoreUnchanged
          /\ (pc[c] = "delete_offense_commit" /\ Answered(c, "offense_deleted")) =>
                /\ req[c].id \notin Ids(offenses')
                /\ offenses' = {o \in offenses : o.id # req[c].id}
                /\ students' = students
          /\ (Answered(c, "404") /\ resp'[c].data[1] = "delete_offense") =>
                resp'[c].data[2] \notin Ids(offenses) /\ StoreUnchanged
      ]_vars

\* C8 witness: one client has deleted an offense and the other, asking to
\* delete an id that no longer resolves, was answered 404.
C8_Witness ==
    \E c, d \in Clients :
        /\ resp[c].status = "offense_deleted"
        /\ resp[d].status = "404"
        /\ resp[d].data[1] = "delete_offense"
        /\ resp[d].data[2] \notin Ids(offenses)

\* C9: Offense records are immutable, and updateStudent changes only the
\* mutable fields of its Student.  No step changes an Offense that is still
\* there after it; an edit_student request is committed only for an id that
\* resolved, its commit leaves every Offense, every other Student and the
\* set of Student ids as they were; a request answered 404 changes nothing.
C9_OffensesImmutable ==
    [][/\ \A o \in offenses : o.id \in Ids(offenses') => o \in offenses'
       /\ \A c \in Clients :
          /\ (pc[c] = "idle" /\ pc'[c] = "edit_student_commit") =>
                req'[c].id \in Ids(students) /\ StoreUnchanged
          /\ (pc[c] = "edit_student_commit" /\ Stepped(c)) =>
                /\ offenses' = offenses
                /\ Ids(students') = Ids(students)
                /\ \A s \in students : s.id # req[c].id => s \in students'
          /\ Answered(c, "404") => StoreUnchanged
      ]_vars

\* C9 witness: a student was updated while offenses and a second student,
\* of another grade, exist.
C9_Witness ==
    \E c \in Clients :
        /\ resp[c].status = "student_updated"
        /\ offenses # {}
        /\ \E s, t \in students : s.grade_level # t.grade_level

\* C3: email uniqueness.  At most one User exists per email; a register
\* request goes on to its INSERT only for an email not registered when it
\* was looked up, and one that reaches its INSERT after the email has been
\* registered is rejected and creates no User.
C3_EmailUnique ==
    [][/\ \A u, v \in users' : u.email = v.email => u = v
       /\ \A c \in Clients :
          /\ (pc[c] = "idle" /\ pc'[c] = "register_insert") =>
                /\ req'[c].email \notin {u.email : u \in users}
                /\ users' = users
          /\ (pc[c] = "register_insert" /\ pc'[c] = "idle"
                /\ req[c].email \in {u.email : u \in users}) =>
                /\ users' = users
                /\ resp'[c].status # "registered"
          /\ Answered(c, "duplicate") => users' = users
      ]_vars

\* C3 witness: two registrations of one email raced; the first created the
\* User, the second was rejected by the store.
C3_Witness ==
    \E c, d \in Clients :
        /\ resp[c].status = "registered"
        /\ resp[d].status = "integrity_error"
        /\ Cardinality(users) = 1

\* C4: register / authenticate round trip.  User rows are never changed or
\* removed; a login answered as successful was given a registered (email,
\* password) pair and logs in that account; a login answered as invalid
\* was given a pair that was never registered and leaves the session alone.
C4_RoundTrip ==
    [][/\ users \subseteq users'
       /\ \A c \in Clients :
          /\ Answered(c, "logged_in") =>
                /\ resp'[c].data \in registered
                /\ \E u \in users : u.email = resp'[c].data[1] /\ session'[c] = u.id
          /\ Answered(c, "invalid_credentials") =>
                /\ resp'[c].data \notin registered
                /\ session' = session
          /\ (session'[c] # session[c] /\ session'[c] # 0) => Answered(c, "logged_in")
      ]_vars

\* C4 witness: one client is logged in with the registered password and the
\* other was refused with the same email and another password.
C4_Witness ==
    \E c, d \in Clients :
        /\ resp[c].status = "logged_in"
        /\ resp[d].status = "invalid_credentials"
        /\ resp[d].data[1] = resp[c].data[1]
        /\ resp[d].data[2] # resp[c].data[2]

\* The Offenses of one type owned by Students of one grade.
OwnedBy(grade, type) ==
    {o \in offenses :
        /\ o.offense_type = type
        /\ \E s \in students : s.id = o.student_id /\ s.grade_level = grade}

\* C5: offensesByTypeAndGrade.  The result has one entry per grade_level
\* that owns at least one Offense, each entry has exactly the keys warning,
\* minor and major, and each value is the number of Offenses of that type
\* owned by a Student of that grade.
C5_ByTypeAndGrade ==
    \A c \in Clients :
        resp[c].status = "by_type_grade" =>
            /\ DOMAIN resp[c].data =
                   {g \in Grades : \E t \in OffenseTypes : OwnedBy(g, t) # {}}
            /\ \A g \in DOMAIN resp[c].data :
                  /\ DOMAIN resp[c].data[g] = {"warning", "minor", "major"}
                  /\ \A t \in DOMAIN resp[c].data[g] :
                        resp[c].data[g][t] = Cardinality(OwnedBy(g, t))

\* C5 witness: a result with both grades, a count of at least 2 and a
\* zero-filled key.
C5_Witness ==
    \E c \in Clients :
        /\ resp[c].status = "by_type_grade"
        /\ DOMAIN resp[c].data = Grades
        /\ \E g \in Grades, t, u \in OffenseTypes :
              resp[c].data[g][t] >= 2 /\ resp[c].data[g][u] = 0

\* text contains term, compared case-insensitively.
Contains(text, term) ==
    \E i \in 0..Len(text) - Len(term) :
        \A j \in 1..Len(term) : Lower(text[i + j]) = Lower(term[j])

\* The Offenses that match a trimmed search term.
Matching(term) ==
    {o \in offenses :
        \/ term = <<>>
        \/ Contains(o.description, term)
        \/ Contains(Chars(o.offense_type), term)
        \/ \E s \in students : s.id = o.student_id /\ Contains(s.name, term)}

\* C6: searchAllOffenses.  The items are the page-th block of 20 of the
\* date-descending list of the Offenses that match the trimmed term; a page
\* below 1 or past the last one is empty.
C6_SearchPage ==
    \A c \in Clients :
        resp[c].status = "all_offenses" =>
            LET term == resp[c].data.search
                page == resp[c].data.requested
                items == resp[c].data.pagination.items
                total == Cardinality(Matching(term))
            IN /\ \A i \in 1..Len(items) : items[i] \in Matching(term)
               /\ \A i, j \in 1..Len(items) :
                     i <= j => DateLE(items[j].date, items[i].date)
               /\ Len(items) =
                     IF page < 1 \/ (page - 1) * 20 >= total THEN 0
                     ELSE IF page * 20 <= total THEN 20
                     ELSE total - (page - 1) * 20

\* C7: offensesForCalendarMonth.  For an existing student and any year and
\* month the request completes without error, shows month when it is in
\* 1..12 and the current month otherwise, and returns exactly the
\* student's Offenses dated within that month of the year, in ascending
\* date order, each grouped under its day of the month.
C7_CalendarMonth ==
    \A c \in Clients :
        resp[c].status \in {"calendar", "value_error"} =>
            LET d == resp[c].data
                m == IF d.month >= 1 /\ d.month <= 12 THEN d.month ELSE d.now[2]
            IN /\ resp[c].status = "calendar"
               /\ d.shown = m
               /\ {d.offenses[i] : i \in 1..Len(d.offenses)} =
                      {o \in offenses :
                          o.student_id = d.id /\ o.date[1] = d.year /\ o.date[2] = m}
               /\ Len(d.offenses) =
                      Cardinality({d.offenses[i] : i \in 1..Len(d.offenses)})
               /\ \A i, j \in 1..Len(d.offenses) :
                     i <= j => DateLE(d.offenses[i].date, d.offenses[j].date)
               /\ \A o \in {d.offenses[i] : i \in 1..Len(d.offenses)} :
                     \E k \in 1..Len(d.offense_dates[o.date[3]]) :
                         d.offense_dates[o.date[3]][k] = Detail(o)

\* What an anonymous client may be answered: the register and login pages
\* and their outcomes, or the redirect to the login page.
PublicStatuses ==
    {"none", "form", "duplicate", "registered", "integrity_error",
     "database_locked", "logged_in", "invalid_credentials", "login_required"}

\* C10: authentication gating.  A request started by a client that is not
\* logged in is a register or a login, or is answered with the redirect to
\* the login page: it changes no Student or Offense and carries no record
\* data.  A request that reads or writes records is in flight only for a
\* logged-in client, and a step that changes the records is not the step
\* of a client that is logged out.
C10_AuthGating ==
    [][/\ \A c \in Clients :
          /\ (session[c] = 0 /\ pc[c] = "idle" /\ Stepped(c)) =>
                /\ StoreUnchanged
                /\ pc'[c] \in {"idle", "register_insert"}
                /\ resp'[c].status \in PublicStatuses
                /\ resp'[c].status = "form" => resp'[c].data = <<>>
          /\ pc'[c] \notin {"idle", "register_insert"} => session'[c] # 0
       /\ ~StoreUnchanged =>
             \E c \in Clients :
                 session[c] # 0 /\ \A d \in Clients \ {c} : ~Stepped(d)
      ]_vars

\* C10 witness: records exist, so the client was logged in; it has logged
\* out since, and its last request was sent to the login page.
C10_Witness ==
    \E c \in Clients :
        /\ students # {}
        /\ offenses # {}
        /\ session[c] = 0
        /\ resp[c].status = "login_required"

=============================================================================
